---------------------------- MODULE Spec2Model ----------------------------
(***************************************************************************)
(* State-machine model of src/src/main.rs: a TCP echo server whose         *)
(* connection handlers share one Mutex<i32> request counter, forward each  *)
(* input to a logging task over a bounded mpsc channel, and whose custom   *)
(* future WaitForStateMachine busy-polls the counter through two           *)
(* thresholds.                                                             *)
(*                                                                         *)
(* Tasks run on the multi-threaded tokio runtime, so every access to a     *)
(* shared object (the mutex, the integer behind it, the channel, the       *)
(* waker flag) is a step of its own and steps of different tasks           *)
(* interleave freely.                                                      *)
(***************************************************************************)
EXTENDS Integers, Sequences, FiniteSets, TLC

\* ------------------------------------------------------------- bounds
\* Total number of non-empty chunks the clients deliver over all connections.
MaxRequests == 5
\* Largest byte count one socket.read returns in the model (the buffer holds 1024).
MaxRead == 1
\* Capacity of the log channel; mpsc::channel(100) in the source, scaled down so
\* that a full channel is reached.
LogCapacity == 2

\* ---------------------------------------------------------- constants
\* `if current >= 3` in the Start arm of poll.
FirstThreshold == 3
\* `if current >= 5` in the Mid arm of poll.
SecondThreshold == 5
\* State::new: Mutex::new(0).
InitialCount == 0
\* Task identity of the task awaiting WaitForStateMachine (handlers are numbered
\* from 1).
WaiterTask == 0

\* The connections main's accept loop hands out, numbered in the order accepted:
\* two, so that handlers run concurrently with each other, with the logging task
\* and with the waiter.
Conns == {1, 2}

VARIABLES
    counter,    \* the i32 behind State.counter (MaxRequests keeps it far from i32::MAX)
    holders,    \* tasks holding a MutexGuard of State.counter
    poisoned,   \* the mutex's poison flag
    pc,         \* pc[h]: where handler h stands in handle_tcp_request
    nread,      \* nread[h]: non-empty chunks handler h has read
    reg,        \* reg[h]: value loaded by `*lock += 1`
    cur,        \* cur[h]: the local `current` (what increment returned)
    sent,       \* sent[h]: the Result of this iteration's send, which `let _ =` discards
    resp,       \* resp[h]: counts of the responses written on connection h
    queue,      \* messages in the log channel
    rxClosed,   \* log_rx has been dropped
    accepted,   \* the messages the channel accepted and did not discard when it
                \* was closed, in the order accepted (history)
    sinkPc,     \* where the logging task stands
    sinkMsg,    \* the message the logging task holds (<<>> when none)
    logged,     \* lines the logging task has printed, in order
    machine,    \* WaitForStateMachine.machine
    note,       \* the note carried by CountState::Mid
    wpc,        \* where the waiter task stands inside poll
    snapshot,   \* the local `current` of poll
    woken,      \* the waiter task has been notified (is scheduled to be polled)
    resolved,   \* number of times poll returned Poll::Ready
    output      \* the value poll returned with Poll::Ready (<<>> when none yet)

handlerVars == <<pc, nread, reg, cur, sent, resp>>
counterVars == <<counter, holders, poisoned>>
logVars     == <<queue, rxClosed, accepted, sinkPc, sinkMsg, logged>>
waiterVars  == <<machine, note, wpc, snapshot, woken, resolved, output>>
vars == <<counter, holders, poisoned, pc, nread, reg, cur, sent, resp, queue,
          rxClosed, accepted, sinkPc, sinkMsg, logged, machine, note, wpc,
          snapshot, woken, resolved, output>>

\* ------------------------------------------------------------ helpers
RECURSIVE SumOver(_, _)
SumOver(f, S) ==
    IF S = {} THEN 0
    ELSE LET x == CHOOSE y \in S : TRUE IN f[x] + SumOver(f, S \ {x})

Range(s) == { s[i] : i \in 1..Len(s) }

\* LogMessage { text: input.clone() } for the k-th chunk of connection h; the
\* text is identified by where it came from.
LogMessage(h, k) == <<h, k>>

\* format!("Reached 5 total requests (note from mid-state: {})", note)
FormatReached(n) == <<"Reached 5 total requests (note from mid-state: ", n, ")">>

\* ---------------------------------------------------------- the mutex
\* Mutant: lock() returns without waiting for the guard another task holds.
LockFreeIgnoresHolder == TRUE

\* Mutex::lock succeeds only while no other guard is alive.
LockFree == holders = {}

\* Mutant: the guard is kept alive past the end of the critical section.
UnlockNever(t) == holders

\* Dropping the MutexGuard at the end of its scope.
Unlock(t) == holders \ {t}

\* A task unwinding from a panic drops its locals; a MutexGuard dropped while
\* panicking poisons the mutex.
PanicPoison(t) == poisoned \/ t \in holders

Init ==
    /\ counter = InitialCount
    /\ holders = {}
    /\ poisoned = FALSE
    /\ pc = [h \in Conns |-> "unaccepted"]
    /\ nread = [h \in Conns |-> 0]
    /\ reg = [h \in Conns |-> 0]
    /\ cur = [h \in Conns |-> 0]
    /\ sent = [h \in Conns |-> "none"]
    /\ resp = [h \in Conns |-> <<>>]
    /\ queue = <<>>
    /\ rxClosed = FALSE
    /\ accepted = <<>>
    /\ sinkPc = "recv"
    /\ sinkMsg = <<>>
    /\ logged = <<>>
    /\ machine = "Start"
    /\ note = ""
    /\ wpc = "idle"
    /\ snapshot = 0
    /\ woken = TRUE
    /\ resolved = 0
    /\ output = <<>>

\* ------------------------------------------------- connection handlers
\* main: listener.accept() and tokio::spawn of handle_tcp_request; the loop
\* accepts one connection after the other.
Accept(h) ==
    /\ pc[h] = "unaccepted"
    /\ \A g \in Conns : g < h => pc[g] /= "unaccepted"
    /\ pc' = [pc EXCEPT ![h] = "read"]
    /\ UNCHANGED <<nread, reg, cur, sent, resp, counterVars, logVars, waiterVars>>

\* Mutant: the `n == 0` check is missing.
AfterReadNoEof(n) == "send"

\* Where the loop goes after socket.read returned n bytes.
AfterRead(n) == IF n = 0 THEN "closed" ELSE "send"

\* socket.read(&mut buf).await returning Ok(n).
Read(h, n) ==
    /\ pc[h] = "read"
    /\ n > 0 => SumOver(nread, Conns) < MaxRequests
    /\ pc' = [pc EXCEPT ![h] = AfterRead(n)]
    /\ nread' = [nread EXCEPT ![h] = IF AfterRead(n) = "send" THEN @ + 1 ELSE @]
    /\ UNCHANGED <<reg, cur, sent, resp, counterVars, logVars, waiterVars>>

\* socket.read(&mut buf).await returning Err: unwrap panics the task. (A panic of
\* the println! that precedes the first read ends the task in the same way.)
ReadFault(h) ==
    /\ pc[h] = "read"
    /\ pc' = [pc EXCEPT ![h] = "readPanic"]
    /\ holders' = Unlock(h)
    /\ poisoned' = PanicPoison(h)
    /\ UNCHANGED <<counter, nread, reg, cur, sent, resp, logVars, waiterVars>>

\* Mutant: the result of send is unwrapped, so a closed channel panics the handler.
SendUnwrap(h) ==
    /\ pc[h] = "send"
    /\ rxClosed \/ Len(queue) < LogCapacity
    /\ queue' = IF rxClosed THEN queue ELSE Append(queue, LogMessage(h, nread[h]))
    /\ accepted' = IF rxClosed THEN accepted
                   ELSE Append(accepted, LogMessage(h, nread[h]))
    /\ sent' = [sent EXCEPT ![h] = IF rxClosed THEN "err" ELSE "ok"]
    /\ pc' = [pc EXCEPT ![h] = IF rxClosed THEN "sendPanic" ELSE "lock"]
    /\ UNCHANGED <<nread, reg, cur, resp, counter, holders, poisoned, rxClosed,
                   sinkPc, sinkMsg, logged, machine, note, wpc, snapshot, woken,
                   resolved, output>>

\* Mutant: an Err from send ends the handler's loop.
SendBreaksOnErr(h) ==
    /\ pc[h] = "send"
    /\ rxClosed \/ Len(queue) < LogCapacity
    /\ queue' = IF rxClosed THEN queue ELSE Append(queue, LogMessage(h, nread[h]))
    /\ accepted' = IF rxClosed THEN accepted
                   ELSE Append(accepted, LogMessage(h, nread[h]))
    /\ sent' = [sent EXCEPT ![h] = IF rxClosed THEN "none" ELSE "ok"]
    /\ pc' = [pc EXCEPT ![h] = IF rxClosed THEN "closed" ELSE "lock"]
    /\ UNCHANGED <<nread, reg, cur, resp, counter, holders, poisoned, rxClosed,
                   sinkPc, sinkMsg, logged, machine, note, wpc, snapshot, woken,
                   resolved, output>>

\* The channel takes a message only while it is open and has a free permit.
CanAccept == ~rxClosed /\ Len(queue) < LogCapacity

\* Mutant: try_send in place of send: a full channel answers Err at once.
SendReturnsAtOnce == TRUE

\* log_tx.send(..).await completes: Ok once a permit is free, Err once the
\* receiver is gone; either result is discarded by `let _ =`.
SendReturns == rxClosed \/ Len(queue) < LogCapacity

Send(h) ==
    /\ pc[h] = "send"
    /\ SendReturns
    /\ queue' = IF CanAccept THEN Append(queue, LogMessage(h, nread[h])) ELSE queue
    /\ accepted' = IF CanAccept THEN Append(accepted, LogMessage(h, nread[h]))
                   ELSE accepted
    /\ sent' = [sent EXCEPT ![h] = IF CanAccept THEN "ok" ELSE "err"]
    /\ pc' = [pc EXCEPT ![h] = "lock"]
    /\ UNCHANGED <<nread, reg, cur, resp, counterVars, rxClosed, sinkPc, sinkMsg,
                   logged, waiterVars>>

\* Mutant: the counter is read and the guard taken without waiting for the lock.
LockWithoutWaiting(h) ==
    /\ pc[h] = "lock"
    /\ pc' = [pc EXCEPT ![h] = "incr"]
    /\ holders' = holders \cup {h}
    /\ reg' = [reg EXCEPT ![h] = counter]
    /\ UNCHANGED <<counter, poisoned, nread, cur, sent, resp, queue, rxClosed, accepted,
                   sinkPc, sinkMsg, logged, machine, note, wpc, snapshot, woken,
                   resolved, output>>

\* State::increment: self.counter.lock().unwrap(), then the load of `*lock += 1`.
Lock(h) ==
    /\ pc[h] = "lock"
    /\ LockFree
    /\ IF poisoned
       THEN /\ pc' = [pc EXCEPT ![h] = "lockPanic"]
            /\ UNCHANGED <<holders, reg>>
       ELSE /\ pc' = [pc EXCEPT ![h] = "incr"]
            /\ holders' = holders \cup {h}
            /\ reg' = [reg EXCEPT ![h] = counter]
    /\ UNCHANGED <<counter, poisoned, nread, cur, sent, resp, logVars, waiterVars>>

\* Mutant: increment returns the value from before the add.
StoreReturnsOld(h) ==
    /\ pc[h] = "incr"
    /\ counter' = reg[h] + 1
    /\ cur' = [cur EXCEPT ![h] = reg[h]]
    /\ reg' = [reg EXCEPT ![h] = 0]
    /\ holders' = holders \ {h}
    /\ pc' = [pc EXCEPT ![h] = "write"]
    /\ UNCHANGED <<poisoned, nread, sent, resp, queue, rxClosed, accepted, sinkPc,
                   sinkMsg, logged, machine, note, wpc, snapshot, woken, resolved,
                   output>>

\* Mutant: the guard lives on in the handler after increment, across the write.
StoreKeepsGuard(h) ==
    /\ pc[h] = "incr"
    /\ counter' = reg[h] + 1
    /\ cur' = [cur EXCEPT ![h] = reg[h] + 1]
    /\ reg' = [reg EXCEPT ![h] = 0]
    /\ pc' = [pc EXCEPT ![h] = "write"]
    /\ UNCHANGED <<holders, poisoned, nread, sent, resp, queue, rxClosed, accepted,
                   sinkPc, sinkMsg, logged, machine, note, wpc, snapshot, woken,
                   resolved, output>>

\* Mutant: the increment adds 2.
StoreAddsTwo(h) ==
    /\ pc[h] = "incr"
    /\ counter' = reg[h] + 2
    /\ cur' = [cur EXCEPT ![h] = reg[h] + 2]
    /\ reg' = [reg EXCEPT ![h] = 0]
    /\ holders' = Unlock(h)
    /\ pc' = [pc EXCEPT ![h] = "write"]
    /\ UNCHANGED <<poisoned, nread, sent, resp, logVars, waiterVars>>

\* State::increment: the store of `*lock += 1`, `*lock` as the return value, and
\* the guard dropped at the closing brace.
Store(h) ==
    /\ pc[h] = "incr"
    /\ counter' = reg[h] + 1
    /\ cur' = [cur EXCEPT ![h] = reg[h] + 1]
    /\ reg' = [reg EXCEPT ![h] = 0]
    /\ holders' = Unlock(h)
    /\ pc' = [pc EXCEPT ![h] = "write"]
    /\ UNCHANGED <<poisoned, nread, sent, resp, logVars, waiterVars>>

\* socket.write_all(response).await returning Ok: the response carries `current`;
\* the locals of the iteration end with it.
Write(h) ==
    /\ pc[h] = "write"
    /\ resp' = [resp EXCEPT ![h] = Append(@, cur[h])]
    /\ cur' = [cur EXCEPT ![h] = 0]
    /\ sent' = [sent EXCEPT ![h] = "none"]
    /\ pc' = [pc EXCEPT ![h] = "read"]
    /\ UNCHANGED <<nread, reg, counterVars, logVars, waiterVars>>

\* Mutant: a failed write gives its count back.
WriteFaultRollsBack(h) ==
    /\ pc[h] = "write"
    /\ pc' = [pc EXCEPT ![h] = "writePanic"]
    /\ counter' = counter - 1
    /\ holders' = Unlock(h)
    /\ poisoned' = PanicPoison(h)
    /\ UNCHANGED <<nread, reg, cur, sent, resp, logVars, waiterVars>>

\* socket.write_all(response).await returning Err: unwrap panics the task.
WriteFault(h) ==
    /\ pc[h] = "write"
    /\ pc' = [pc EXCEPT ![h] = "writePanic"]
    /\ holders' = Unlock(h)
    /\ poisoned' = PanicPoison(h)
    /\ UNCHANGED <<counter, nread, reg, cur, sent, resp, logVars, waiterVars>>

\* ------------------------------------------------------ the logging task
\* Mutant: the channel hands out its newest message first.
SinkRecvNewest ==
    /\ sinkPc = "recv"
    /\ queue /= <<>>
    /\ sinkMsg' = queue[Len(queue)]
    /\ queue' = SubSeq(queue, 1, Len(queue) - 1)
    /\ sinkPc' = "print"
    /\ UNCHANGED <<rxClosed, accepted, logged, pc, nread, reg, cur, sent, resp, counter,
                   holders, poisoned, machine, note, wpc, snapshot, woken,
                   resolved, output>>

\* log_rx.recv().await returning Some(msg).
SinkRecv ==
    /\ sinkPc = "recv"
    /\ queue /= <<>>
    /\ sinkMsg' = Head(queue)
    /\ queue' = Tail(queue)
    /\ sinkPc' = "print"
    /\ UNCHANGED <<rxClosed, accepted, logged, handlerVars, counterVars, waiterVars>>

\* println!("[LOG] {}", msg.text) succeeding.
SinkPrint ==
    /\ sinkPc = "print"
    /\ logged' = Append(logged, sinkMsg)
    /\ sinkMsg' = <<>>
    /\ sinkPc' = "recv"
    /\ UNCHANGED <<queue, rxClosed, accepted, handlerVars, counterVars, waiterVars>>

\* println! panics when stdout cannot be written: the task unwinds, log_rx is
\* dropped, which closes the channel and discards what it still holds.
SinkPrintFault ==
    /\ sinkPc = "print"
    /\ sinkPc' = "dead"
    /\ sinkMsg' = <<>>
    /\ rxClosed' = TRUE
    /\ queue' = <<>>
    /\ accepted' = logged
    /\ UNCHANGED <<logged, handlerVars, counterVars, waiterVars>>

\* --------------------------------------------------------- the waiter
\* poll: this.state.counter.lock().unwrap() and `*lock` read into `current`.
BeginPoll ==
    /\ wpc = "idle"
    /\ LockFree
    /\ woken' = FALSE
    /\ IF poisoned
       THEN /\ wpc' = "panicked"
            /\ UNCHANGED <<holders, snapshot>>
       ELSE /\ wpc' = "locked"
            /\ holders' = holders \cup {WaiterTask}
            /\ snapshot' = counter
    /\ UNCHANGED <<counter, poisoned, machine, note, resolved, output,
                   handlerVars, logVars>>

\* The runtime polls the task because it was notified (spawn, or its own waker).
WaiterPoll == woken /\ BeginPoll

\* Mutant: the Start arm compares with > 1 in place of >= 3.
NextMachineEarly(m, c) ==
    CASE m = "Start" -> IF c >= FirstThreshold - 1 THEN "Mid" ELSE "Start"
      [] m = "Mid"   -> IF c >= SecondThreshold THEN "Done" ELSE "Mid"
      [] OTHER       -> "Done"

\* Mutant: the Start arm goes straight to Done when the second threshold is met.
NextMachineSkips(m, c) ==
    CASE m = "Start" -> IF c >= SecondThreshold THEN "Done"
                        ELSE IF c >= FirstThreshold THEN "Mid" ELSE "Start"
      [] m = "Mid"   -> IF c >= SecondThreshold THEN "Done" ELSE "Mid"
      [] OTHER       -> "Done"

\* The arms of `match &mut this.machine`: the next machine state, ...
NextMachine(m, c) ==
    CASE m = "Start" -> IF c >= FirstThreshold THEN "Mid" ELSE "Start"
      [] m = "Mid"   -> IF c >= SecondThreshold THEN "Done" ELSE "Mid"
      [] OTHER       -> "Done"

\* Mutant: the Start arm returns the result as soon as the second threshold is met.
PollReadyFromStart(m, c) == (m = "Start" \/ m = "Mid") /\ c >= SecondThreshold

\* Mutant: the Done arm hands out the result again.
PollReadyAgain(m, c) == (m = "Mid" \/ m = "Done") /\ c >= SecondThreshold

\* ... whether the arm returns Poll::Ready, ...
PollReady(m, c) == m = "Mid" /\ c >= SecondThreshold

\* Mutant: the Mid arm returns Pending without waking the task.
PollWakesOnlyInStart(m, c) == m = "Start"

\* Mutant: the Done arm wakes the task like the other two.
PollWakesInDone(m, c) == ~(m = "Mid" /\ c >= SecondThreshold)

\* Mutant: the Start arm wakes the task only when it did not move to Mid.
PollWakesUnlessMoved(m, c) ==
    \/ (m = "Start" /\ ~(c >= FirstThreshold))
    \/ (m = "Mid" /\ ~(c >= SecondThreshold))

\* ... and whether the arm calls cx.waker().wake_by_ref().
PollWakes(m, c) == m = "Start" \/ (m = "Mid" /\ ~(c >= SecondThreshold))

\* poll: the guard dropped at the end of the block that computes `current`, then
\* the match. The match touches only the future's own fields, so it is taken in
\* one step with the release that precedes it.
WaiterMatch ==
    /\ wpc = "locked"
    /\ holders' = Unlock(WaiterTask)
    /\ machine' = NextMachine(machine, snapshot)
    /\ note' = IF machine = "Start" /\ NextMachine(machine, snapshot) = "Mid"
               THEN "reached 3 requests"
               ELSE note
    /\ woken' = (woken \/ PollWakes(machine, snapshot))
    /\ resolved' = IF PollReady(machine, snapshot) THEN resolved + 1 ELSE resolved
    /\ output' = IF PollReady(machine, snapshot) THEN FormatReached(note) ELSE output
    /\ wpc' = "idle"
    /\ snapshot' = 0
    /\ UNCHANGED <<counter, poisoned, handlerVars, logVars>>

\* ------------------------------------------------------ specifications
Handler(h) ==
    \/ Accept(h)
    \/ \E n \in 0..MaxRead : Read(h, n)
    \/ ReadFault(h)
    \/ Send(h)
    \/ Lock(h)
    \/ Store(h)
    \/ Write(h)
    \/ WriteFault(h)

Sink == SinkRecv \/ SinkPrint \/ SinkPrintFault

Waiter == WaiterPoll \/ WaiterMatch

Next ==
    \/ \E h \in Conns : Handler(h)
    \/ Sink
    \/ Waiter

Spec == Init /\ [][Next]_vars

\* The waiter's future polled by any executor: besides the polls its own wake-ups
\* cause, Future::poll may be called again at any time, also after it returned
\* Ready.
SpuriousPoll == ~woken /\ BeginPoll

NextAnyPoll == Next \/ SpuriousPoll

SpecAnyPoll == Init /\ [][NextAnyPoll]_vars

\* The runtime runs a notified task, and a thread inside increment() keeps running
\* until it has released the lock.
FairSpec ==
    /\ Spec
    /\ WF_vars(Waiter)
    /\ \A h \in Conns : WF_vars(Store(h))

\* ------------------------------------------------------------- claims
\* Handlers that are inside one iteration of the loop (a chunk read, its response
\* not yet written).
MidIteration == { h \in Conns : pc[h] \in {"send", "lock", "incr", "write"} }

Panicked == { h \in Conns : pc[h] \in {"readPanic", "writePanic", "lockPanic"} }

\* The values increment() has returned to handler h so far.
ReturnedTo(h) ==
    Range(resp[h]) \cup (IF pc[h] \in {"write", "writePanic"} THEN {cur[h]} ELSE {})

NumReturnedTo(h) ==
    Len(resp[h]) + (IF pc[h] \in {"write", "writePanic"} THEN 1 ELSE 0)

AllReturned == UNION { ReturnedTo(h) : h \in Conns }

AllResponses == UNION { Range(resp[h]) : h \in Conns }

NumResponses == SumOver([h \in Conns |-> Len(resp[h])], Conns)

\* C1: when no handler is inside an iteration and none has faulted, the counter
\* equals the number of non-empty chunks processed (N*M for N handlers of M chunks
\* each); and in every state the values increment() has returned are pairwise
\* distinct, one for each call that has returned.
C1_ExactCount ==
    /\ (MidIteration = {} /\ Panicked = {}) => counter = SumOver(nread, Conns)
    /\ Cardinality(AllReturned)
         = SumOver([h \in Conns |-> NumReturnedTo(h)], Conns)

\* Two handlers have each processed two chunks and closed: N = 2, M = 2.
C1_Witness ==
    /\ \A h \in Conns : pc[h] = "closed" /\ nread[h] = 2
    /\ counter = 2 * Cardinality(Conns)

\* C2: poll returns Ready at most once; when it has, the value is exactly "Reached
\* 5 total requests (note from mid-state: reached 3 requests)"; and it has not
\* while the counter is below 5.
C2_ResolvesOnce ==
    /\ resolved <= 1
    /\ resolved = 1 =>
         output = <<"Reached 5 total requests (note from mid-state: ",
                    "reached 3 requests", ")">>
    /\ resolved = 0 => output = <<>>
    /\ counter < 5 => resolved = 0

\* The future has resolved and is being polled again.
C2_Witness == resolved = 1 /\ machine = "Done" /\ wpc = "locked"

\* C3: once the counter has reached 5, the waiter eventually is Done with its
\* result produced.
C3_EventuallyDone ==
    (counter >= 5) ~> (machine = "Done" /\ resolved = 1 /\ output /= <<>>)

\* A poll in Start that sees the counter already at 5 or more.
C3_Witness == machine = "Start" /\ wpc = "locked" /\ snapshot >= 5

\* C4: the counts of the responses written on one connection are strictly
\* increasing, and the count about to be written is greater than all of them.
C4_PerConnectionIncreasing ==
    \A h \in Conns :
        /\ \A i, j \in 1..Len(resp[h]) : i < j => resp[h][i] < resp[h][j]
        /\ pc[h] = "write" => \A i \in 1..Len(resp[h]) : resp[h][i] < cur[h]

\* A connection whose responses are interleaved with another connection's.
C4_Witness == resp[1] = <<1, 3>> /\ resp[2] = <<2, 4>>

\* C5: every response bears a count of its own, a value increment() returned and
\* no other response bears; and once every count handed out has been written (no
\* handler stands between its increment and its write, none faulted in the write)
\* the k responses bear exactly 1..k.
C5_ResponseCounts ==
    /\ Cardinality(AllResponses) = NumResponses
    /\ AllResponses \subseteq 1..counter
    /\ \A h \in Conns : pc[h] = "write" => cur[h] \in (1..counter) \ AllResponses
    /\ (\A h \in Conns : pc[h] \notin {"incr", "write", "writePanic"}) =>
         /\ AllResponses = 1..NumResponses
         /\ NumResponses = counter
    /\ \A h \in Conns :
         Len(resp[h]) = nread[h] - (IF h \in MidIteration \/ pc[h] = "writePanic"
                                    THEN 1 ELSE 0)

\* Two clients sent one message each; the second connection was served first.
C5_Witness ==
    /\ resp[1] = <<2>> /\ resp[2] = <<1>>
    /\ pc[1] = "closed" /\ pc[2] = "closed"

\* C6 as stated: log delivery never blocks the response path, so a handler that
\* has read a chunk can always complete its send, whatever the state of the queue.
C6_NeverBlocks == \A h \in Conns : pc[h] = "send" => ENABLED Send(h)

\* C6 as amended: the send never fails the handler and blocks it only while the
\* queue is open and full. With space in the queue or the queue closed the send
\* completes at once; every step out of the send leads to the increment; and from
\* there on no step of the handler depends on the log queue or the logging task.
C6_BlocksOnlyWhenFull ==
    \A h \in Conns :
        /\ pc[h] = "send" =>
             /\ (rxClosed \/ Len(queue) < LogCapacity)
                  => ENABLED (Send(h) /\ pc'[h] = "lock")
             /\ (~rxClosed /\ Len(queue) >= LogCapacity) => ~ENABLED Handler(h)
             /\ ~ENABLED (Handler(h) /\ pc'[h] /= "lock")
        /\ (pc[h] = "lock" /\ holders = {}) => ENABLED Lock(h)
        /\ pc[h] = "incr" => ENABLED Store(h)
        /\ pc[h] = "write" => ENABLED Write(h)

\* A handler whose message was dropped by the closed queue has gone on to
\* increment the counter and is writing its response.
C6_Witness ==
    \E h \in Conns :
        /\ pc[h] = "write"
        /\ rxClosed
        /\ sent[h] = "err"

\* C7: a read or write fault of handler h changes nothing but h's own position:
\* the counter, the lock (not held, not poisoned), the log channel, the logging
\* task, the waiter and every other handler are as they were; and no panicked
\* handler ever holds the lock.
C7_FaultIsolation ==
    /\ [](~poisoned /\ holders \cap Panicked = {})
    /\ [][\A h \in Conns :
            (pc[h] \notin {"readPanic", "writePanic"}
               /\ pc'[h] \in {"readPanic", "writePanic"})
            => /\ \A g \in Conns \ {h} : pc'[g] = pc[g]
               /\ UNCHANGED <<counter, holders, poisoned, nread, reg, cur, sent, resp>>
               /\ UNCHANGED <<logVars, waiterVars>>]_vars

\* One handler has faulted in its write while another holds the lock inside
\* increment() and the waiter has moved on.
C7_Witness ==
    \E h, g \in Conns :
        /\ pc[h] = "writePanic"
        /\ pc[g] = "incr" /\ g \in holders
        /\ machine = "Mid"

\* C8: a task holds the lock only inside increment() or inside poll's snapshot
\* block, never while suspended in a read, a send or a write or after poll has
\* returned; at most one task holds it; and the holder can always go on to
\* release it.
C8_NoLockAcrossSuspension ==
    /\ \A h \in Conns : h \in holders => pc[h] = "incr" /\ ENABLED Store(h)
    /\ WaiterTask \in holders => wpc = "locked" /\ ENABLED WaiterMatch
    /\ Cardinality(holders) <= 1

\* The waiter holds the lock while one handler waits for it and another is
\* suspended in its write.
C8_Witness ==
    \E h, g \in Conns :
        /\ pc[h] = "write"
        /\ pc[g] = "lock"
        /\ WaiterTask \in holders

\* C9: a read of zero bytes moves the handler to its end and changes nothing
\* else: no response, no log message, no increment; and a handler that has ended
\* stays ended and writes nothing more.
C9_ZeroLengthRead ==
    [][\A h \in Conns :
         /\ Read(h, 0) => pc'[h] = "closed"
         /\ (pc[h] = "read" /\ pc'[h] = "closed") =>
              UNCHANGED <<counter, holders, poisoned, nread, resp, logVars>>
         /\ pc[h] = "closed" => pc'[h] = "closed" /\ resp'[h] = resp[h]]_vars

\* A connection that was served twice has been closed by its peer.
C9_Witness == \E h \in Conns : pc[h] = "closed" /\ Len(resp[h]) = 2 /\ counter = 2

\* The message the logging task has received and not yet printed.
InFlight == IF sinkPc = "print" THEN <<sinkMsg>> ELSE <<>>

\* C10: what has been logged, followed by what the logging task holds and what is
\* still queued, is the sequence of messages in the order the queue accepted them
\* (less those it discarded unlogged when it was closed); and the logged messages
\* of one handler appear in the order that handler sent them.
C10_LogOrder ==
    /\ logged \o InFlight \o queue = accepted
    /\ \A i, j \in 1..Len(logged) :
         (i < j /\ logged[i][1] = logged[j][1]) => logged[i][2] < logged[j][2]

\* Three messages of two producers, interleaved, have been logged.
C10_Witness == logged = <<LogMessage(1, 1), LogMessage(2, 1), LogMessage(1, 2)>>

\* C11: every message the log queue has accepted is eventually logged; in
\* particular no message that is queued or held by the logging task ever leaves
\* the channel other than by being logged.
C11_AcceptedIsLogged ==
    [][\A m \in Range(queue) \cup Range(InFlight) :
         m \in Range(queue') \cup Range(InFlight') \cup Range(logged')]_vars

\* C12: a send on the closed queue completes at once with Err and queues
\* nothing; the handler that got Err is on its way through the increment and the
\* write like any other, its message nowhere in the channel or the log, and its
\* write is enabled and leads back to the next read.
C12_ClosedQueueIsSkipped ==
    \A h \in Conns :
        /\ (pc[h] = "send" /\ rxClosed) =>
             /\ ENABLED (Send(h) /\ pc'[h] = "lock" /\ sent'[h] = "err"
                           /\ queue' = queue /\ counter' = counter)
             /\ ~ENABLED (Send(h) /\ (pc'[h] /= "lock" \/ queue' /= queue))
        /\ sent[h] = "err" =>
             /\ rxClosed
             /\ pc[h] \in {"lock", "incr", "write", "writePanic"}
             /\ LogMessage(h, nread[h])
                  \notin Range(queue) \cup Range(InFlight) \cup Range(logged)
        /\ (sent[h] = "err" /\ pc[h] = "lock" /\ holders = {}) => ENABLED Lock(h)
        /\ (sent[h] = "err" /\ pc[h] = "write") =>
             ENABLED (Write(h) /\ pc'[h] = "read"
                        /\ resp'[h] = Append(resp[h], cur[h]))

\* The logging task died before it logged anything, and one connection has
\* nevertheless received more responses than the channel can ever have accepted
\* messages (its capacity, plus the one the task held).
C12_Witness ==
    \E h \in Conns :
        /\ rxClosed /\ logged = <<>>
        /\ Len(resp[h]) >= LogCapacity + 2

\* C13: the queue never holds more than its capacity; a handler sending into the
\* open, full queue can take no step; and while the queue is open every message a
\* handler has tried to send, other than one still waiting in the send, has been
\* accepted and is queued, held by the logging task or logged.
C13_BoundedAndLossless ==
    /\ Len(queue) <= LogCapacity
    /\ \A h \in Conns :
         (pc[h] = "send" /\ ~rxClosed /\ Len(queue) = LogCapacity)
           => ~ENABLED Handler(h)
    /\ ~rxClosed =>
         \A h \in Conns : \A k \in 1..nread[h] :
            \/ (k = nread[h] /\ pc[h] = "send")
            \/ LogMessage(h, k)
                 \in Range(queue) \cup Range(InFlight) \cup Range(logged)
    /\ \A h \in Conns : sent[h] = "err" => rxClosed

\* A handler waits in its send on the open, full queue after the logging task has
\* already taken messages out of it.
C13_Witness ==
    /\ ~rxClosed
    /\ Len(queue) = LogCapacity
    /\ Len(logged) >= 2
    /\ \E h \in Conns : pc[h] = "send"

\* C14: the counter starts at 0; every step leaves the stored value unchanged or
\* raises it by exactly 1; and every value an increment has returned (held by a
\* handler or already written as a response) is at most the stored value, so a
\* later read, by the waiter's poll or by the next increment, sees at least it.
C14_Monotonic ==
    /\ counter = InitialCount
    /\ [][counter' = counter \/ counter' = counter + 1]_vars
    /\ [](\A h \in Conns :
            /\ cur[h] <= counter
            /\ \A i \in 1..Len(resp[h]) : resp[h][i] <= counter)
    /\ [][\A h \in Conns :
            /\ (wpc = "idle" /\ wpc' = "locked") =>
                 /\ snapshot' >= cur[h]
                 /\ \A i \in 1..Len(resp[h]) : snapshot' >= resp[h][i]
            /\ \A g \in Conns : (pc[g] = "lock" /\ pc'[g] = "incr") =>
                 /\ reg'[g] >= cur[h]
                 /\ \A i \in 1..Len(resp[h]) : reg'[g] >= resp[h][i]]_vars

\* The waiter's poll has read the counter after the last allowed increment
\* released the lock, and every returned value has been written as a response.
C14_Witness ==
    /\ wpc = "locked"
    /\ snapshot = MaxRequests
    /\ NumResponses = MaxRequests
    /\ \E h \in Conns : resp[h] /= <<>> /\ resp[h][Len(resp[h])] = snapshot

\* C15: the waiter's phase moves only forward and one phase per poll: a step
\* leaves it unchanged, or takes it from Start to Mid, or from Mid to Done; Done
\* is never left.
C15_PhaseForward ==
    [][\/ machine' = machine
       \/ (machine = "Start" /\ machine' = "Mid")
       \/ (machine = "Mid" /\ machine' = "Done")]_vars

\* The machine stands in Mid, unresolved and between polls, although the counter
\* is already past the second threshold: the move to Done awaits a poll of its own.
C15_Witness ==
    /\ machine = "Mid"
    /\ resolved = 0
    /\ wpc = "idle"
    /\ counter >= SecondThreshold

\* C16: a step taken in phase Start never yields the result, whatever the
\* snapshot; the result is yielded only by a poll in Mid whose snapshot is at
\* least 5, and Mid is entered only by a poll in Start whose snapshot is at
\* least 3: two polls at least.
C16_StartIsPending ==
    [][/\ machine = "Start" => (resolved' = resolved /\ output' = output)
       /\ resolved' /= resolved =>
            /\ machine = "Mid" /\ wpc = "locked" /\ snapshot >= SecondThreshold
            /\ note = "reached 3 requests"
       /\ (machine = "Start" /\ machine' = "Mid") =>
            (wpc = "locked" /\ snapshot >= FirstThreshold)]_vars

\* The first poll of the waiter holds a snapshot that is already past both
\* thresholds.
C16_Witness ==
    /\ machine = "Start"
    /\ wpc = "locked"
    /\ snapshot >= SecondThreshold
    /\ resolved = 0

\* C17: no lost wake-up: whenever the waiter is between polls with its machine in
\* Start or Mid, a wake-up of its task is outstanding, so another poll follows; and
\* the poll that returns pending in Start or Mid is the one that left it.
C17_NoLostWakeup ==
    /\ (wpc = "idle" /\ machine \in {"Start", "Mid"}) => (woken /\ resolved = 0)
    /\ (wpc = "locked" /\ machine \in {"Start", "Mid"}) =>
         ENABLED (WaiterMatch /\ (machine' \in {"Start", "Mid"} => woken'))
    /\ (wpc = "locked" /\ machine \in {"Start", "Mid"}) =>
         ~ENABLED (WaiterMatch /\ machine' \in {"Start", "Mid"} /\ ~woken')

\* The waiter has returned pending from a poll in Mid, below the second
\* threshold, and is due to be polled again.
C17_Witness ==
    /\ machine = "Mid"
    /\ wpc = "idle"
    /\ woken
    /\ counter < SecondThreshold

\* C18: with the machine in Done the result has been yielded exactly once and no
\* wake-up is outstanding; any step taken then, a poll included, leaves the
\* machine in Done, yields nothing and requests no further poll, whatever the
\* counter.
C18_DoneIsInert ==
    /\ [](machine = "Done" => (~woken /\ resolved = 1))
    /\ [][machine = "Done" =>
            /\ machine' = "Done"
            /\ resolved' = resolved
            /\ output' = output
            /\ note' = note
            /\ ~woken']_vars

\* A poll of the finished future holds the lock with its snapshot taken.
C18_Witness ==
    /\ machine = "Done"
    /\ holders = {WaiterTask}
    /\ snapshot >= SecondThreshold
    /\ output /= <<>>

\* C19: Mid implies a counter of at least 3 and the note "reached 3 requests";
\* Done implies a counter of at least 5; a step that changes the waiter's phase
\* or note leaves the counter alone, and a step that changes the counter leaves
\* the phase and the note alone.
C19_PhaseTracksCounter ==
    /\ [](/\ machine = "Mid" =>
               (counter >= FirstThreshold /\ note = "reached 3 requests")
          /\ machine = "Done" => counter >= SecondThreshold)
    /\ [][/\ (machine' /= machine \/ note' /= note \/ wpc' /= wpc) =>
               counter' = counter
          /\ counter' /= counter =>
               (machine' = machine /\ note' = note /\ resolved' = resolved)]_vars

\* The machine is in Mid with the counter exactly at the first threshold.
C19_Witness ==
    /\ machine = "Mid"
    /\ note = "reached 3 requests"
    /\ counter = FirstThreshold
    /\ wpc = "idle"

\* C20: responses written <= counter <= non-empty chunks read; the counter
\* exceeds the responses by at most the handlers between their increment and the
\* end of their write or faulted in that write; the count of a handler that
\* faulted in its write stays consumed: the counter is not below it, and no
\* response and no other handler carries it.
C20_Accounting ==
    /\ NumResponses <= counter
    /\ counter <= SumOver(nread, Conns)
    /\ counter - NumResponses
         <= Cardinality({ h \in Conns : pc[h] \in {"write", "writePanic"} })
    /\ counter
         >= NumResponses + Cardinality({ h \in Conns : pc[h] = "writePanic" })
    /\ \A h \in Conns : pc[h] = "writePanic" =>
         /\ cur[h] \in 1..counter
         /\ cur[h] \notin AllResponses
         /\ \A g \in Conns \ {h} : cur[g] /= cur[h]

\* One handler faulted writing the response for count 1; the other has since
\* been given the counts 2 and 3.
C20_Witness ==
    \E h \in Conns, g \in Conns :
        /\ pc[h] = "writePanic"
        /\ cur[h] = 1
        /\ resp[g] = <<2, 3>>

=============================================================================
